---------------------------- MODULE Spec2Model ----------------------------
(***************************************************************************)
(* Model of meshtastic_sim.py: the preset table, the metrics arithmetic,   *)
(* simulate_transmission statement by statement (so that a KeyboardInter-  *)
(* rupt can arrive between any two statements), the interactive menu of    *)
(* run() and the direct mode of main().                                    *)
(*                                                                         *)
(* Representation.                                                         *)
(*  - Times are integers in microseconds.  Data rates are in 1/100 kbps    *)
(*    (the table gives two decimals), so packet_size / bytes_per_second    *)
(*    is packet_size * 800000 \div rate microseconds.                      *)
(*  - The program only ever reads the clock as time.time() - start_time.   *)
(*    The model keeps start_time as "None"/"set" and since_start, the      *)
(*    value of time.time() - self.start_time, which grows with every       *)
(*    sleep and is 0 right after line 214.  Time spent outside sleeps is   *)
(*    taken as 0.                                                          *)
(*  - A content is [len, blank]: its length and whether .strip() of it is  *)
(*    empty.  NoContent stands for None.                                   *)
(*  - pc is the statement about to execute; "st_NNN" is line NNN of        *)
(*    simulate_transmission.                                               *)
(***************************************************************************)
EXTENDS Integers, Sequences, FiniteSets, TLC

\* ------------------------------------------------------------------ bounds
\* Largest content length fed to calculate_transmission_metrics on its own.
MaxLen == 1000
\* Most simulate_transmission calls in one process (an interactive session).
MaxRuns == 2
\* Longest run in microseconds, delays and pauses together.
MaxClock == 2000000000

\* ------------------------------------------------------- program constants
PacketSize == 237
SampleLen == 1158
MaxDots == 15
StatsEvery == 25
PauseMicros == 50000
Unbound == -1

Seconds(n) == n * 1000000
SlowThreshold == Seconds(10)
ModerateThreshold == Seconds(3)

Min(a, b) == IF a < b THEN a ELSE b
Max(a, b) == IF a > b THEN a ELSE b

Preset(rate) == [data_rate |-> rate, packet_size |-> PacketSize]

RADIO_PRESETS ==
    "1" :> Preset(2188) @@ "2" :> Preset(1094) @@ "3" :> Preset(625) @@
    "4" :> Preset(352)  @@ "5" :> Preset(195)  @@ "6" :> Preset(107) @@
    "7" :> Preset(34)   @@ "8" :> Preset(18)

PresetIds == DOMAIN RADIO_PRESETS
default_preset == "6"

SAMPLE_TEXT == [len |-> SampleLen, blank |-> FALSE]
NoContent == [len |-> Unbound, blank |-> TRUE]

\* str.lower() on the strings the model feeds to it.
Lower(s) ==
    CASE s = "Y" -> "y"
      [] s = "N" -> "n"
      [] s = "SAMPLE" -> "sample"
      [] OTHER -> s

Keywords == {"sample", "demo", "test", "default"}

\* ---------------------------------------------------------------- inputs
\* What a non-keyword source (a path or a URL) can hold: an empty file, a
\* whitespace-only file, one full packet, two packets and a short third.
FileContents ==
    { [len |-> 0, blank |-> TRUE], [len |-> 1, blank |-> TRUE],
      [len |-> PacketSize, blank |-> FALSE],
      [len |-> 2 * PacketSize + 6, blank |-> FALSE] }

Sources == {"SAMPLE", "notes.txt", "http://host/notes.txt"}
PresetInputs == PresetIds \cup {"9", ""}
Responses == {"y", "Y", "n", "N", "", "no", "yes"}
Choices == {"1", "2", "3", "4", "5", "x"}

\* get_file_content: the sample for a keyword; otherwise what the file or
\* URL holds, or None after "Error reading source" when it cannot be read.
get_file_content(source) ==
    IF Lower(source) \in Keywords
        THEN {SAMPLE_TEXT}
        ELSE FileContents \cup {NoContent}

\* --------------------------------------------------------------- metrics
NoMetrics ==
    [ transmission_time_per_packet |-> 0, total_packets |-> 0,
      total_transmission_time |-> 0, effective_num |-> 0, effective_den |-> 1,
      overhead_num |-> 0, overhead_den |-> 1 ]

\* A forgotten round-up: floor instead of ceiling.
calculate_transmission_metrics_floor(data_rate, content_length, packet_size) ==
    LET tpp == (packet_size * 800000) \div data_rate
        total_packets == content_length \div packet_size
    IN  [ transmission_time_per_packet |-> tpp,
          total_packets |-> total_packets,
          total_transmission_time |-> total_packets * tpp,
          effective_num |-> IF total_packets * tpp > 0 THEN content_length ELSE 0,
          effective_den |-> IF total_packets * tpp > 0 THEN total_packets * tpp ELSE 1,
          overhead_num |-> IF content_length > 0
                             THEN (total_packets * packet_size - content_length) * 100
                             ELSE 0,
          overhead_den |-> IF content_length > 0 THEN content_length ELSE 1 ]

\* An overhead taken against the padded size, always one packet too many.
calculate_transmission_metrics_pad(data_rate, content_length, packet_size) ==
    LET tpp == (packet_size * 800000) \div data_rate
        total_packets == (content_length + packet_size - 1) \div packet_size
    IN  [ transmission_time_per_packet |-> tpp,
          total_packets |-> total_packets,
          total_transmission_time |-> total_packets * tpp,
          effective_num |-> IF total_packets * tpp > 0 THEN content_length ELSE 0,
          effective_den |-> IF total_packets * tpp > 0 THEN total_packets * tpp ELSE 1,
          overhead_num |-> IF content_length > 0
                             THEN ((total_packets + 1) * packet_size - content_length) * 100
                             ELSE 0,
          overhead_den |-> IF content_length > 0 THEN content_length ELSE 1 ]

\* A plan that always holds at least one packet.
calculate_transmission_metrics_one_packet(data_rate, content_length, packet_size) ==
    LET tpp == (packet_size * 800000) \div data_rate
        total_packets == Max(1, (content_length + packet_size - 1) \div packet_size)
    IN  [ transmission_time_per_packet |-> tpp,
          total_packets |-> total_packets,
          total_transmission_time |-> total_packets * tpp,
          effective_num |-> IF total_packets * tpp > 0 THEN content_length ELSE 0,
          effective_den |-> IF total_packets * tpp > 0 THEN total_packets * tpp ELSE 1,
          overhead_num |-> IF content_length > 0
                             THEN (total_packets * packet_size - content_length) * 100
                             ELSE 0,
          overhead_den |-> IF content_length > 0 THEN content_length ELSE 1 ]

\* effective_data_rate_bps and overhead_percentage are the exact fractions
\* effective_num / effective_den and overhead_num / overhead_den.
calculate_transmission_metrics(data_rate, content_length, packet_size) ==
    LET tpp == (packet_size * 800000) \div data_rate
        total_packets == (content_length + packet_size - 1) \div packet_size
    IN  [ transmission_time_per_packet |-> tpp,
          total_packets |-> total_packets,
          total_transmission_time |-> total_packets * tpp,
          effective_num |-> IF total_packets * tpp > 0 THEN content_length ELSE 0,
          effective_den |-> IF total_packets * tpp > 0 THEN total_packets * tpp ELSE 1,
          overhead_num |-> IF content_length > 0
                             THEN (total_packets * packet_size - content_length) * 100
                             ELSE 0,
          overhead_den |-> IF content_length > 0 THEN content_length ELSE 1 ]

\* ----------------------------------------------------------------- state
VARIABLES
    argv,             \* sys.argv[1:]
    pc,               \* the statement about to execute
    exit_status,      \* "running", then the process exit status
    last_msg,         \* the last report printed to the user
    runs,             \* simulate_transmission calls so far
    fetched,          \* the content local of main() and run()
    start_time,       \* self.start_time: "None" or "set"
    since_start,      \* time.time() - self.start_time
    total_bytes_sent, \* self.total_bytes_sent
    content, preset_id, show_live_stats,      \* arguments of the call
    metrics, packet_num, total_packets, i, j, chunk, elapsed_time,  \* locals
    run_state,        \* Idle, Running, Completed, Cancelled of this call
    emitted,          \* chunks printed by this call
    prompted,         \* whether this call asked for confirmation
    response,         \* what the user answered
    report,           \* the summary this call printed
    snapshots,        \* live statistics this call printed
    raised,           \* the exception that left simulate_transmission
    int_pc,           \* where this call was interrupted
    slept,            \* time this call has slept: in packet delays, in pauses
    sleeps            \* the sub-delays slept for the packet in flight

inst == <<start_time, since_start, total_bytes_sent>>
args == <<content, preset_id, show_live_stats>>
locals == <<metrics, packet_num, total_packets, i, j, chunk, elapsed_time>>
ghost == <<run_state, emitted, prompted, response, report, snapshots, raised, int_pc>>
proc == <<argv, exit_status, last_msg, runs, fetched>>
timing == <<slept, sleeps>>
vars == <<pc, proc, inst, args, locals, ghost, timing>>

NoSleep == [delay |-> 0, pause |-> 0]

NoReport == [kind |-> "none", packets |-> 0, total |-> 0, bytes |-> 0, elapsed |-> 0]

Interactive == Len(argv) = 0

TryPcs == { "st_214", "st_215", "st_216", "st_217", "st_219", "st_223",
            "st_229", "st_234", "st_238", "st_244", "st_245", "st_248",
            "st_251", "st_254" }
HandlerPcs == {"st_257", "st_258"}
SimPcs == {"st_entry", "st_confirm", "st_263", "st_266"} \cup TryPcs \cup HandlerPcs

\* The simulator as __init__ leaves it, and no call made yet.
Fresh ==
    /\ exit_status = "running"
    /\ last_msg = ""
    /\ runs = 0
    /\ fetched = NoContent
    /\ start_time = "None"
    /\ since_start = 0
    /\ total_bytes_sent = 0
    /\ show_live_stats = TRUE
    /\ metrics = NoMetrics
    /\ packet_num = Unbound
    /\ total_packets = Unbound
    /\ i = Unbound
    /\ j = Unbound
    /\ chunk = Unbound
    /\ elapsed_time = Unbound
    /\ run_state = "Idle"
    /\ emitted = 0
    /\ prompted = FALSE
    /\ response = "none"
    /\ report = NoReport
    /\ snapshots = <<>>
    /\ raised = "none"
    /\ int_pc = "none"
    /\ slept = NoSleep
    /\ sleeps = <<>>

Init ==
    /\ argv \in {<<>>} \cup {<<s>> : s \in Sources}
                       \cup {<<s, p>> : s \in Sources, p \in PresetInputs}
    /\ pc = "main"
    /\ content = NoContent
    /\ preset_id = ""
    /\ Fresh

\* ------------------------------------------------------ calls and returns
\* A call of simulate_transmission(c, p, s): fresh locals, nothing printed yet.
Call(c, p, s) ==
    /\ content' = c
    /\ preset_id' = p
    /\ show_live_stats' = s
    /\ pc' = "st_entry"
    /\ runs' = runs + 1
    /\ metrics' = NoMetrics
    /\ packet_num' = Unbound
    /\ total_packets' = Unbound
    /\ i' = Unbound
    /\ j' = Unbound
    /\ chunk' = Unbound
    /\ elapsed_time' = Unbound
    /\ run_state' = "Idle"
    /\ emitted' = 0
    /\ prompted' = FALSE
    /\ response' = "none"
    /\ report' = NoReport
    /\ snapshots' = <<>>
    /\ raised' = "none"
    /\ int_pc' = "none"
    /\ slept' = NoSleep
    /\ sleeps' = <<>>

\* simulate_transmission returns: to the menu loop of run(), or to main().
Return == pc' = IF Interactive THEN "menu" ELSE "main_ret"

\* ------------------------------------------------------------------ main
\* The preset main() hands to simulate_transmission in direct mode, with the
\* fallback to the default also applied to ids that are not in the table.
DirectPresetOrDefault ==
    IF Len(argv) > 1 /\ argv[2] \in PresetIds THEN argv[2] ELSE default_preset

\* The preset main() hands to simulate_transmission in direct mode.
DirectPreset == IF Len(argv) > 1 THEN argv[2] ELSE default_preset

\* Lines 333-341 and 350.  The usage message of lines 345-347 cannot be
\* reached: len(sys.argv) > 1 already gives len(sys.argv) >= 2.
Main ==
    /\ pc = "main"
    /\ IF Len(argv) > 0
          THEN /\ preset_id' = DirectPreset
               /\ last_msg' = "Direct mode"
               /\ pc' = "direct_342"
          ELSE /\ last_msg' = "MESHTASTIC TRANSMISSION SIMULATOR"
               /\ pc' = "menu"
               /\ UNCHANGED preset_id
    /\ UNCHANGED <<timing, argv, fetched, exit_status, runs, inst, content, show_live_stats, locals, ghost>>

DirectGet ==
    /\ pc = "direct_342"
    /\ \E c \in get_file_content(argv[1]) :
          /\ fetched' = c
          /\ IF c # NoContent
                THEN /\ Call(c, preset_id, TRUE)
                     /\ UNCHANGED last_msg
                ELSE /\ last_msg' = "Error reading source"
                     /\ pc' = "main_ret"
                     /\ UNCHANGED <<timing, runs, args, locals, ghost>>
    /\ UNCHANGED <<argv, exit_status, inst>>

MainReturn ==
    /\ pc = "main_ret"
    /\ pc' = "exited"
    /\ exit_status' = "0"
    /\ UNCHANGED <<timing, argv, fetched, last_msg, runs, inst, args, locals, ghost>>

\* ------------------------------------------------------------------- run
MenuView ==
    /\ pc = "menu"
    /\ \E choice \in {"1", "2"} : last_msg' = "MESHTASTIC RADIO PRESETS"
    /\ UNCHANGED <<timing, pc, argv, fetched, exit_status, runs, inst, args, locals, ghost>>

MenuSimulate ==
    /\ pc = "menu"
    /\ runs < MaxRuns
    /\ pc' = "source_297"
    /\ last_msg' = "File source:"
    /\ UNCHANGED <<timing, argv, fetched, exit_status, runs, inst, args, locals, ghost>>

SourceInput ==
    /\ pc = "source_297"
    /\ \E source \in Sources \cup {""} :
          IF source = ""
             THEN /\ last_msg' = "No source provided."
                  /\ pc' = "menu"
                  /\ UNCHANGED fetched
             ELSE \E c \in get_file_content(source) :
                     /\ fetched' = c
                     /\ IF c = NoContent
                           THEN last_msg' = "Error reading source" /\ pc' = "menu"
                           ELSE IF c.blank
                                   THEN last_msg' = "File is empty." /\ pc' = "menu"
                                   ELSE last_msg' = "MESHTASTIC RADIO PRESETS"
                                        /\ pc' = "preset_313"
    /\ UNCHANGED <<timing, argv, exit_status, runs, inst, args, locals, ghost>>

PresetInput ==
    /\ pc = "preset_313"
    /\ \E preset_input \in PresetInputs :
          Call(fetched, IF preset_input = "" THEN default_preset ELSE preset_input, TRUE)
    /\ UNCHANGED <<argv, fetched, exit_status, last_msg, inst>>

MenuDemo ==
    /\ pc = "menu"
    /\ runs < MaxRuns
    /\ Call(SAMPLE_TEXT, default_preset, FALSE)
    /\ last_msg' = "Quick demo with LongFast preset..."
    /\ UNCHANGED <<argv, fetched, exit_status, inst>>

MenuExit ==
    /\ pc = "menu"
    /\ last_msg' = "Goodbye!"
    /\ pc' = "main_ret"
    /\ UNCHANGED <<timing, argv, fetched, exit_status, runs, inst, args, locals, ghost>>

MenuInvalid ==
    /\ pc = "menu"
    /\ \E choice \in Choices \ {"1", "2", "3", "4", "5"} : last_msg' = "Invalid choice."
    /\ UNCHANGED <<timing, pc, argv, fetched, exit_status, runs, inst, args, locals, ghost>>

\* ------------------------------------------------- simulate_transmission
delay == metrics.transmission_time_per_packet
dots_to_show == Min(delay \div 1000000, MaxDots)
dot_interval == IF dots_to_show > 0 THEN delay \div dots_to_show ELSE delay
\* The fraction of a second left over, whatever the dots slept.
remaining_delay_fraction == delay % 1000000

remaining_delay == delay - dots_to_show * dot_interval

\* An unknown id, with the counters reset before the id is looked at.
RejectPresetAfterReset ==
    /\ last_msg' = "Invalid preset ID"
    /\ Return
    /\ total_bytes_sent' = 0
    /\ UNCHANGED <<timing, start_time, since_start, locals, ghost>>

\* Lines 189-191: an unknown id is reported and the call returns.
RejectPreset ==
    /\ last_msg' = "Invalid preset ID"
    /\ Return
    /\ UNCHANGED <<timing, inst, locals, ghost>>

\* Whether the run needs a prompt first (lines 198, 203).
NeedsPrompt(d) == d > SlowThreshold \/ d > ModerateThreshold

\* Whether the answer lets the run start (lines 200, 205).
Proceeds(d, r) ==
    IF d > SlowThreshold THEN Lower(r) = "y"
    ELSE IF d > ModerateThreshold THEN Lower(r) # "n"
    ELSE TRUE

\* Lines 209-211, up to the try.
Start ==
    /\ last_msg' = "Starting transmission..."
    /\ run_state' = "Running"
    /\ pc' = "st_214"

\* Lines 189-198/203: look the preset up, print the analysis, decide to prompt.
StEntry ==
    /\ pc = "st_entry"
    /\ IF preset_id \notin PresetIds
          THEN RejectPreset /\ UNCHANGED <<argv, fetched, exit_status, runs, args>>
          ELSE LET m == calculate_transmission_metrics(
                            RADIO_PRESETS[preset_id].data_rate, content.len,
                            RADIO_PRESETS[preset_id].packet_size)
               IN  /\ metrics' = m
                   /\ IF NeedsPrompt(m.transmission_time_per_packet)
                         THEN /\ pc' = "st_confirm"
                              /\ prompted' = TRUE
                              /\ last_msg' = "Continue?"
                              /\ UNCHANGED run_state
                         ELSE Start /\ UNCHANGED prompted
                   /\ UNCHANGED <<timing, argv, fetched, exit_status, runs, inst, args, packet_num,
                                  total_packets, i, j, chunk, elapsed_time, emitted,
                                  response, report, snapshots, raised, int_pc>>

\* Lines 199-207: the answer to the prompt.
StConfirm ==
    /\ pc = "st_confirm"
    /\ \E r \in Responses :
          /\ response' = r
          /\ IF Proceeds(delay, r)
                THEN Start
                ELSE last_msg' = "Cancelled." /\ Return /\ UNCHANGED run_state
    /\ UNCHANGED <<timing, argv, fetched, exit_status, runs, inst, args, locals, emitted, prompted,
                   report, snapshots, raised, int_pc>>

St214 ==
    /\ pc = "st_214"
    /\ start_time' = "set"
    /\ since_start' = 0
    /\ pc' = "st_215"
    /\ UNCHANGED <<timing, proc, total_bytes_sent, args, locals, ghost>>

St215 ==
    /\ pc = "st_215"
    /\ total_bytes_sent' = 0
    /\ pc' = "st_216"
    /\ UNCHANGED <<timing, proc, start_time, since_start, args, locals, ghost>>

St216 ==
    /\ pc = "st_216"
    /\ packet_num' = 1
    /\ pc' = "st_217"
    /\ UNCHANGED <<timing, proc, inst, args, metrics, total_packets, i, j, chunk,
                   elapsed_time, ghost>>

St217 ==
    /\ pc = "st_217"
    /\ total_packets' = metrics.total_packets
    /\ pc' = "st_219"
    /\ UNCHANGED <<timing, proc, inst, args, metrics, packet_num, i, j, chunk,
                   elapsed_time, ghost>>

\* Lines 219-220: the next offset of range(0, len(content), packet_size) and
\* its chunk, or the end of the loop.
StFor ==
    /\ pc = "st_219"
    /\ LET packet_size == RADIO_PRESETS[preset_id].packet_size
           next == IF i = Unbound THEN 0 ELSE i + packet_size
       IN  IF next < content.len
              THEN /\ i' = next
                   /\ chunk' = Min(packet_size, content.len - next)
                   /\ pc' = "st_223"
              ELSE /\ pc' = "st_263"
                   /\ UNCHANGED <<i, chunk>>
    /\ UNCHANGED <<timing, proc, inst, args, metrics, packet_num, total_packets, j,
                   elapsed_time, ghost>>

\* time.sleep(d) inside the per-packet delay of lines 229-236.
SleepDelay(d) ==
    /\ since_start' = since_start + d
    /\ slept' = [slept EXCEPT !.delay = @ + d]
    /\ sleeps' = Append(sleeps, d)

\* Lines 223-227: the packet header; the dots are about to be slept.
StHeader ==
    /\ pc = "st_223"
    /\ last_msg' = "packet header"
    /\ j' = 0
    /\ sleeps' = <<>>
    /\ pc' = "st_229"
    /\ UNCHANGED <<slept, argv, fetched, exit_status, runs, inst, args, metrics, packet_num,
                   total_packets, i, chunk, elapsed_time, ghost>>

\* Lines 229-231: one dot and its sleep, or the end of the dots.
StDot ==
    /\ pc = "st_229"
    /\ IF j < dots_to_show
          THEN /\ SleepDelay(dot_interval)
               /\ j' = j + 1
               /\ UNCHANGED pc
          ELSE /\ pc' = "st_234"
               /\ UNCHANGED <<since_start, j, timing>>
    /\ UNCHANGED <<proc, start_time, total_bytes_sent, args, metrics, packet_num,
                   total_packets, i, chunk, elapsed_time, ghost>>

\* Lines 234-236: the rest of the delay.
StRemaining ==
    /\ pc = "st_234"
    /\ IF remaining_delay > 0
          THEN SleepDelay(remaining_delay)
          ELSE UNCHANGED <<since_start, timing>>
    /\ pc' = "st_238"
    /\ UNCHANGED <<proc, start_time, total_bytes_sent, args, locals, ghost>>

\* Lines 238-241: " OK" and the chunk itself.
StChunk ==
    /\ pc = "st_238"
    /\ emitted' = emitted + 1
    /\ last_msg' = "chunk"
    /\ pc' = "st_244"
    /\ UNCHANGED <<timing, argv, fetched, exit_status, runs, inst, args, locals, run_state, prompted,
                   response, report, snapshots, raised, int_pc>>

\* Line 244 crediting a whole packet instead of len(chunk).
St244_packet_size ==
    /\ pc = "st_244"
    /\ total_bytes_sent' = total_bytes_sent + RADIO_PRESETS[preset_id].packet_size
    /\ pc' = "st_245"
    /\ UNCHANGED <<timing, proc, start_time, since_start, args, locals, ghost>>

St244 ==
    /\ pc = "st_244"
    /\ total_bytes_sent' = total_bytes_sent + chunk
    /\ pc' = "st_245"
    /\ UNCHANGED <<timing, proc, start_time, since_start, args, locals, ghost>>

St245 ==
    /\ pc = "st_245"
    /\ elapsed_time' = since_start
    /\ pc' = "st_248"
    /\ UNCHANGED <<timing, proc, inst, args, metrics, packet_num, total_packets, i, j,
                   chunk, ghost>>

\* Line 248 with the last packet let through.
ShowsLiveStats_through_last ==
    /\ show_live_stats
    /\ packet_num % Max(StatsEvery, total_packets \div 10) = 0
    /\ packet_num <= total_packets

\* Line 248: whether this packet is followed by live statistics.
ShowsLiveStats ==
    /\ show_live_stats
    /\ packet_num % Max(StatsEvery, total_packets \div 10) = 0
    /\ packet_num < total_packets

\* An ETA counted from the packets done instead of the packets left.
display_live_stats_done(pn, total, bytes_sent, elapsed) ==
    IF elapsed > 0
       THEN <<[ packet_num |-> pn, total_packets |-> total, bytes_sent |-> bytes_sent,
                elapsed_time |-> elapsed,
                eta |-> IF pn > 0 THEN (pn - total) * (elapsed \div pn) ELSE 0 ]>>
       ELSE <<>>

\* display_live_stats: silent unless some time has elapsed.
display_live_stats(pn, total, bytes_sent, elapsed) ==
    IF elapsed > 0
       THEN <<[ packet_num |-> pn, total_packets |-> total, bytes_sent |-> bytes_sent,
                elapsed_time |-> elapsed,
                eta |-> IF pn > 0 THEN (total - pn) * (elapsed \div pn) ELSE 0 ]>>
       ELSE <<>>

St248 ==
    /\ pc = "st_248"
    /\ snapshots' = IF ShowsLiveStats
                       THEN snapshots \o display_live_stats(packet_num, total_packets,
                                             total_bytes_sent, elapsed_time)
                       ELSE snapshots
    /\ pc' = "st_251"
    /\ UNCHANGED <<timing, proc, inst, args, locals, run_state, emitted, prompted, response,
                   report, raised, int_pc>>

St251 ==
    /\ pc = "st_251"
    /\ packet_num' = packet_num + 1
    /\ pc' = "st_254"
    /\ UNCHANGED <<timing, proc, inst, args, metrics, total_packets, i, j, chunk,
                   elapsed_time, ghost>>

St254 ==
    /\ pc = "st_254"
    /\ since_start' = since_start + PauseMicros
    /\ slept' = [slept EXCEPT !.pause = @ + PauseMicros]
    /\ UNCHANGED sleeps
    /\ pc' = "st_219"
    /\ UNCHANGED <<proc, start_time, total_bytes_sent, args, locals, ghost>>

\* Lines 263-264, after the try statement.
St263 ==
    /\ pc = "st_263"
    /\ elapsed_time' = since_start
    /\ pc' = "st_266"
    /\ UNCHANGED <<timing, proc, inst, args, metrics, packet_num, total_packets, i, j,
                   chunk, ghost>>

\* Lines 266-267: the completion summary.
St266 ==
    /\ pc = "st_266"
    /\ report' = [ kind |-> "complete", packets |-> packet_num - 1,
                   total |-> total_packets, bytes |-> total_bytes_sent,
                   elapsed |-> elapsed_time ]
    /\ last_msg' = "Transmission complete!"
    /\ run_state' = "Completed"
    /\ Return
    /\ UNCHANGED <<timing, argv, fetched, exit_status, runs, inst, args, locals, emitted, prompted,
                   response, snapshots, raised, int_pc>>

\* Line 257, in the except clause.
St257 ==
    /\ pc = "st_257"
    /\ elapsed_time' = IF start_time = "set" THEN since_start ELSE 0
    /\ pc' = "st_258"
    /\ UNCHANGED <<timing, proc, inst, args, metrics, packet_num, total_packets, i, j,
                   chunk, ghost>>

\* Lines 258-260: the partial summary.  Line 258 prints the elapsed time;
\* line 259 reads packet_num and total_packets, and reading a local that was
\* never assigned raises UnboundLocalError, which nothing catches.
St258 ==
    /\ pc = "st_258"
    /\ IF packet_num = Unbound \/ total_packets = Unbound
          THEN /\ raised' = "UnboundLocalError"
               /\ last_msg' = "Transmission stopped after"
               /\ exit_status' = "1"
               /\ pc' = "exited"
               /\ report' = [ kind |-> "stopped after", packets |-> 0, total |-> 0,
                              bytes |-> 0, elapsed |-> elapsed_time ]
               /\ UNCHANGED run_state
          ELSE /\ report' = [ kind |-> "stopped", packets |-> packet_num - 1,
                              total |-> total_packets, bytes |-> total_bytes_sent,
                              elapsed |-> elapsed_time ]
               /\ last_msg' = "Transmission stopped after"
               /\ run_state' = "Cancelled"
               /\ Return
               /\ UNCHANGED <<raised, exit_status>>
    /\ UNCHANGED <<timing, argv, fetched, runs, inst, args, locals, emitted, prompted, response,
                   snapshots, int_pc>>

\* ------------------------------------------------------ KeyboardInterrupt
FirstInterrupt == int_pc' = IF int_pc = "none" THEN pc ELSE int_pc

\* Inside the try statement: control goes to the except clause.
InterruptTry ==
    /\ pc \in TryPcs
    /\ pc' = "st_257"
    /\ FirstInterrupt
    /\ UNCHANGED <<timing, proc, inst, args, locals, run_state, emitted, prompted, response,
                   report, snapshots, raised>>

\* Elsewhere in simulate_transmission: the exception leaves it.  run()
\* passes it on to main(), which catches it around simulator.run() only.
InterruptSim ==
    /\ pc \in SimPcs \ TryPcs
    /\ FirstInterrupt
    /\ raised' = "KeyboardInterrupt"
    /\ pc' = "exited"
    /\ IF Interactive
          THEN last_msg' = "Goodbye!" /\ exit_status' = "0"
          ELSE exit_status' = "130" /\ UNCHANGED last_msg
    /\ UNCHANGED <<timing, argv, fetched, runs, inst, args, locals, run_state, emitted, prompted,
                   response, report, snapshots>>

\* In the menu loop, between simulations: main() says goodbye.
InterruptMenu ==
    /\ pc \in {"menu", "source_297", "preset_313"}
    /\ pc' = "exited"
    /\ last_msg' = "Goodbye!"
    /\ exit_status' = "0"
    /\ UNCHANGED <<timing, argv, fetched, runs, inst, args, locals, ghost>>

\* In main() outside its try statement: nothing catches it.
InterruptMain ==
    /\ pc \in {"main", "direct_342", "main_ret"}
    /\ pc' = "exited"
    /\ exit_status' = "130"
    /\ UNCHANGED <<timing, argv, fetched, last_msg, runs, inst, args, locals, ghost>>

Next ==
    \/ Main \/ DirectGet \/ MainReturn
    \/ MenuView \/ MenuSimulate \/ SourceInput \/ PresetInput \/ MenuDemo
    \/ MenuExit \/ MenuInvalid
    \/ StEntry \/ StConfirm
    \/ St214 \/ St215 \/ St216 \/ St217 \/ StFor \/ StHeader \/ StDot
    \/ StRemaining \/ StChunk \/ St244 \/ St245 \/ St248 \/ St251 \/ St254
    \/ St263 \/ St266 \/ St257 \/ St258
    \/ InterruptTry \/ InterruptSim \/ InterruptMenu \/ InterruptMain

Spec == Init /\ [][Next]_vars

\* ---------------------------------------------- the metrics on their own
\* display_transmission_info for any preset and any content length.
InitMetrics ==
    /\ argv = <<>>
    /\ pc = "calc"
    /\ content \in {[len |-> n, blank |-> (n = 0)] : n \in 0..MaxLen}
    /\ preset_id \in PresetIds
    /\ Fresh

CalcMetrics ==
    /\ pc = "calc"
    /\ metrics' = calculate_transmission_metrics(
                      RADIO_PRESETS[preset_id].data_rate, content.len,
                      RADIO_PRESETS[preset_id].packet_size)
    /\ pc' = "calc_done"
    /\ UNCHANGED <<timing, proc, inst, args, packet_num, total_packets, i, j, chunk,
                   elapsed_time, ghost>>

NextMetrics == CalcMetrics

SpecMetrics == InitMetrics /\ [][NextMetrics]_vars

\* ------------------------------------------- long files in direct mode
\* Files long enough for live statistics: 75 packets, the last one full, and
\* 260 packets, the last one a character short.
LongFiles ==
    { [len |-> 3 * StatsEvery * PacketSize, blank |-> FALSE],
      [len |-> 10 * (StatsEvery + 1) * PacketSize - 1, blank |-> FALSE] }

\* The whole run, delays and pauses, stays within the clock of the model.
FitsClock(c, p) ==
    LET packet_size == RADIO_PRESETS[p].packet_size
        tpp == (packet_size * 800000) \div RADIO_PRESETS[p].data_rate
        packets == (c.len + packet_size - 1) \div packet_size
    IN  packets * ((tpp + PauseMicros) \div 1000 + 1) <= MaxClock \div 1000

\* python meshtastic_sim.py notes.txt <preset>, or no argument at all.
InitLong ==
    /\ argv \in {<<>>} \cup {<<"notes.txt", p>> : p \in PresetIds}
    /\ pc = "main"
    /\ content = NoContent
    /\ preset_id = ""
    /\ Fresh

\* Lines 342-344 when the file read is one of the long ones.
DirectGetLong ==
    /\ pc = "direct_342"
    /\ \E c \in {f \in LongFiles : FitsClock(f, preset_id)} :
          /\ fetched' = c
          /\ Call(c, preset_id, TRUE)
    /\ UNCHANGED <<argv, exit_status, last_msg, inst>>

\* Direct mode on a long file; the menu offers the quick demo only.
NextLong ==
    \/ Main \/ DirectGetLong \/ MainReturn \/ MenuDemo
    \/ StEntry \/ StConfirm
    \/ St214 \/ St215 \/ St216 \/ St217 \/ StFor \/ StHeader \/ StDot
    \/ StRemaining \/ StChunk \/ St244 \/ St245 \/ St248 \/ St251 \/ St254
    \/ St263 \/ St266 \/ St257 \/ St258
    \/ InterruptTry \/ InterruptSim \/ InterruptMenu \/ InterruptMain

SpecLong == InitLong /\ [][NextLong]_vars

\* ------------------------------------------------------------ properties
packet_size_of_run == RADIO_PRESETS[preset_id].packet_size

\* The least n with n * ps >= L.
Ceil(L, ps) == CHOOSE n \in 0..L : n * ps >= L /\ (n = 0 \/ (n - 1) * ps < L)

\* C1: a run that ends Cancelled reports packet_num - 1 packets and exactly
\* the bytes of that many whole chunks, min(len(content), packets * size).
C1_CancelReportsWholeChunks ==
    run_state = "Cancelled" =>
        /\ report.packets = packet_num - 1
        /\ report.bytes = Min(content.len, report.packets * packet_size_of_run)

\* C2: an interrupt at the prompt, anywhere in the try statement or in the
\* final statistics never leaves simulate_transmission as an exception,
\* never makes the except clause fail, and the process does not exit
\* with a status other than 0.
C2_InterruptRecovered ==
    int_pc \in ({"st_confirm", "st_263", "st_266"} \cup TryPcs) =>
        /\ raised = "none"
        /\ exit_status \in {"running", "0"}

\* C3: total_packets is the ceiling of L / packet_size for every preset and
\* every length L >= 0, and 0 for L = 0.
C3_TotalPacketsIsCeiling ==
    pc = "calc_done" =>
        /\ metrics.total_packets = Ceil(content.len, packet_size_of_run)
        /\ (content.len = 0 => metrics.total_packets = 0)

\* Preset "6" and 1000 characters give 5 packets.
C3_Witness ==
    /\ pc = "calc_done"
    /\ preset_id = "6"
    /\ content.len = 1000
    /\ metrics.total_packets = 5

\* C4: the overhead is never negative, and it is 0 exactly when L is a
\* multiple of the packet size (L = 0 included).
C4_OverheadZeroIffMultiple ==
    pc = "calc_done" =>
        /\ metrics.overhead_den > 0
        /\ metrics.overhead_num >= 0
        /\ (metrics.overhead_num = 0 <=> content.len % packet_size_of_run = 0)

\* Two full packets: no overhead.
C4_Witness ==
    /\ pc = "calc_done"
    /\ content.len = 2 * PacketSize
    /\ metrics.total_packets = 2
    /\ metrics.overhead_num = 0

\* C5: a run that entered Running and is over, other than by a
\* KeyboardInterrupt that left it, is Completed or Cancelled.
C5_RunningEndsTerminal ==
    (pc \notin SimPcs /\ run_state # "Idle" /\ raised # "KeyboardInterrupt") =>
        run_state \in {"Completed", "Cancelled"}

\* An answer that says yes; Enter counts at the "(Y/n)" prompt.
Affirmative(d) ==
    IF d > SlowThreshold THEN {"y", "Y", "yes"} ELSE {"y", "Y", "yes", ""}

\* C6: with a delay above 3 s the run is Running only after a prompt that
\* the user answered with a yes; with a delay of at most 3 s no prompt.
C6_RunsOnlyAfterConfirmation ==
    run_state = "Running" =>
        IF NeedsPrompt(delay)
           THEN prompted /\ response \in Affirmative(delay)
           ELSE ~prompted

\* C7 as stated: in direct mode an omitted or unknown preset argument means
\* the call is made with the default preset.
C7_DirectDefaultsWhenInvalid ==
    (~Interactive /\ pc \in SimPcs /\ (Len(argv) < 2 \/ argv[2] \notin PresetIds)) =>
        preset_id = default_preset

\* C7 amended: in direct mode the call is made with the default preset when
\* the argument is omitted and with the argument as given otherwise; an
\* argument that is not in the table is reported and nothing is simulated.
C7_DirectPresetAsGiven ==
    (~Interactive /\ runs > 0) =>
        /\ preset_id = (IF Len(argv) > 1 THEN argv[2] ELSE default_preset)
        /\ preset_id \notin PresetIds =>
              /\ run_state = "Idle"
              /\ emitted = 0
              /\ ~prompted
              /\ metrics = NoMetrics
              /\ (pc # "st_entry" /\ int_pc = "none") => last_msg = "Invalid preset ID"

\* Direct mode with the argument "9": reported, and the process is over.
C7_Witness ==
    /\ Len(argv) = 2
    /\ argv[2] = "9"
    /\ pc = "exited"
    /\ exit_status = "0"
    /\ last_msg = "Invalid preset ID"
    /\ preset_id = "9"

\* C8: the step of simulate_transmission on an id that is not in the table
\* reports it and returns to the caller (the menu, in an interactive
\* session) without raising, prompting or printing a chunk, and leaves
\* start_time, total_bytes_sent and the id itself as they were.
C8_InvalidProfileRejected ==
    [][ (pc = "st_entry" /\ preset_id \notin PresetIds /\ int_pc' = "none") =>
            /\ last_msg' = "Invalid preset ID"
            /\ pc' = (IF Interactive THEN "menu" ELSE "main_ret")
            /\ raised' = "none"
            /\ exit_status' = "running"
            /\ ~prompted'
            /\ emitted' = 0
            /\ run_state' = "Idle"
            /\ UNCHANGED <<start_time, since_start, total_bytes_sent, preset_id>>
      ]_vars

\* Back in the menu after an unknown id, with what an earlier run left.
C8_Witness ==
    /\ Interactive
    /\ pc = "menu"
    /\ runs = 2
    /\ preset_id = "9"
    /\ last_msg = "Invalid preset ID"
    /\ start_time = "set"
    /\ total_bytes_sent > 0

\* C9: simulate_transmission is never entered with content of length 0.
C9_EmptyContentNeverSimulated ==
    pc \in SimPcs => content.len > 0

\* C10: in direct mode, a source that could not be read ends the process
\* with a status other than 0.
C10_SourceFailureExitsNonZero ==
    (~Interactive /\ fetched = NoContent /\ last_msg = "Error reading source"
        /\ pc = "exited") => exit_status # "0"

RECURSIVE SumSeq(_)
SumSeq(q) == IF q = <<>> THEN 0 ELSE Head(q) + SumSeq(Tail(q))

\* C13: the elapsed time a run reports is the time that run itself has
\* spent, whatever earlier runs left in start_time.
C13_ReportsOnlyThisRun ==
    report.kind # "none" =>
        /\ report.elapsed = slept.delay + slept.pause
        /\ report.bytes <= content.len

\* C14: the sub-delays slept for one packet are min(floor(delay), 15) dot
\* intervals of delay / dots each and then the remainder if there is one, or
\* the whole delay at once below 1 s; none is zero or negative and together
\* they are exactly the per-packet delay.
C14_SubDelaysAddUp ==
    pc = "st_238" =>
        LET d == metrics.transmission_time_per_packet
            dots == Min(d \div 1000000, MaxDots)
        IN  /\ SumSeq(sleeps) = d
            /\ \A k \in 1..Len(sleeps) : sleeps[k] > 0
            /\ Len(sleeps) \in {Max(dots, 1), dots + 1}
            /\ \A k \in 1..dots : sleeps[k] = d \div dots
            /\ d < Seconds(1) => sleeps = <<d>>
            /\ (dots > 0 /\ dots * (d \div dots) = d) => Len(sleeps) = dots

\* Preset "8": ten dots and a remainder.
C14_Witness ==
    /\ pc = "st_238"
    /\ preset_id = "8"
    /\ Len(sleeps) = 11
    /\ emitted = 1

\* C15: the elapsed time behind the live rate, the ETA and the final rate
\* holds the per-packet delays slept so far and none of the pauses.
C15_ElapsedExcludesPauses ==
    (pc \in {"st_248", "st_266"} /\ int_pc = "none") => elapsed_time = slept.delay

\* C16: every iteration starts with (packet_num - 1) * size bytes sent and a
\* chunk of exactly the packet size unless it is the last one; a Completed
\* run has printed as many chunks as the plan has packets and has sent
\* len(content) bytes.
C16_CompletedSendsEverything ==
    /\ pc = "st_223" =>
          /\ total_bytes_sent = (packet_num - 1) * packet_size_of_run
          /\ chunk > 0
          /\ chunk = packet_size_of_run \/ i + chunk = content.len
    /\ run_state = "Completed" =>
          /\ emitted = metrics.total_packets
          /\ report.packets = metrics.total_packets
          /\ total_bytes_sent = content.len
          /\ report.bytes = content.len

\* Two full packets and a third of 6 characters, all sent.
C16_Witness ==
    /\ run_state = "Completed"
    /\ content.len = 2 * PacketSize + 6
    /\ emitted = 3
    /\ total_bytes_sent = 2 * PacketSize + 6

\* C12: for content of length 0 the plan has no packets, no transmission
\* time and no overhead, and none of its divisions has a zero divisor; a run
\* on it that is not interrupted prints no chunk and sleeps for nothing, and
\* ends Completed with 0 packets and 0 bytes, for every profile.
C12_EmptyContentCompletesAtOnce ==
    (content.len = 0 /\ preset_id \in PresetIds) =>
        /\ pc \in SimPcs \ {"st_entry"} =>
              /\ metrics.total_packets = 0
              /\ metrics.total_transmission_time = 0
              /\ metrics.effective_num = 0 /\ metrics.effective_den # 0
              /\ metrics.overhead_num = 0 /\ metrics.overhead_den # 0
        /\ (run_state = "Running" /\ int_pc = "none") =>
              /\ pc \in {"st_214", "st_215", "st_216", "st_217", "st_219",
                         "st_263", "st_266"}
              /\ emitted = 0
              /\ slept = NoSleep
              /\ snapshots = <<>>
        /\ (runs > 0 /\ pc \notin SimPcs /\ int_pc = "none"
              /\ (prompted => Proceeds(delay, response))) =>
              /\ run_state = "Completed"
              /\ report = [ kind |-> "complete", packets |-> 0, total |-> 0,
                            bytes |-> 0, elapsed |-> 0 ]

\* An empty file under preset "8", the slow prompt answered with a yes.
C12_Witness ==
    /\ content.len = 0
    /\ preset_id = "8"
    /\ response = "y"
    /\ run_state = "Completed"
    /\ report.kind = "complete"
    /\ emitted = 0

\* C11: within one run the progress snapshots carry strictly increasing
\* packet indices, non-decreasing bytes sent, an elapsed time that is never
\* negative and never goes back, and a non-negative ETA.
C11_SnapshotsMonotone ==
    \A k \in 1..Len(snapshots) :
        /\ snapshots[k].packet_num >= 1
        /\ snapshots[k].bytes_sent >= 0
        /\ snapshots[k].elapsed_time >= 0
        /\ snapshots[k].eta >= 0
        /\ k > 1 => /\ snapshots[k].packet_num > snapshots[k - 1].packet_num
                    /\ snapshots[k].bytes_sent >= snapshots[k - 1].bytes_sent
                    /\ snapshots[k].elapsed_time >= snapshots[k - 1].elapsed_time

\* 260 packets under preset "7": snapshots after 26, 52, ... 234.
C11_Witness ==
    /\ Len(snapshots) = 9
    /\ preset_id = "7"
    /\ snapshots[9].packet_num = 9 * (StatsEvery + 1)
    /\ snapshots[9].eta > 0
    /\ run_state = "Completed"

\* C17: a snapshot follows packet k only with live statistics enabled, k a
\* positive multiple of max(25, total_packets // 10) and k below
\* total_packets; the quick demo emits none.
C17_SnapshotCadence ==
    /\ \A k \in 1..Len(snapshots) :
          /\ show_live_stats
          /\ snapshots[k].packet_num > 0
          /\ snapshots[k].packet_num % Max(StatsEvery, metrics.total_packets \div 10) = 0
          /\ snapshots[k].packet_num < metrics.total_packets
    /\ (Interactive /\ runs > 0) =>
          /\ preset_id = default_preset
          /\ ~show_live_stats
          /\ snapshots = <<>>

\* 75 packets: snapshots after 25 and 50, none after the last.
C17_Witness ==
    /\ metrics.total_packets = 3 * StatsEvery
    /\ emitted = 3 * StatsEvery
    /\ run_state = "Completed"
    /\ Len(snapshots) = 2
    /\ snapshots[2].packet_num = 2 * StatsEvery

=============================================================================
